---- MODULE Spec2Model ----
(***************************************************************************)
(* Model of the deployment pipeline of the LLM Code Deployment API:        *)
(*   src/src/api_handler.py          process_deployment_request            *)
(*   src/src/github_deployer.py      GitHubDeployer                        *)
(*   src/src/evaluation_notifier.py  EvaluationNotifier                    *)
(*   src/src/llm_generator.py        LLMCodeGenerator (its return values)  *)
(*                                                                         *)
(* One run of process_deployment_request is a walk of pc through the       *)
(* statements of the function; every blocking external call (a git or gh   *)
(* subprocess, a POST) is one action.  Runs follow one another (runs       *)
(* counts them) and share the remote repository, which persists.           *)
(*                                                                         *)
(* The environment: a subprocess may time out at any step; a step that     *)
(* talks to the hosting service (clone, push, gh repo create, gh api) may  *)
(* exit non-zero at any time; a purely local git step exits with the code  *)
(* git gives for the state of the working tree (commit with nothing staged *)
(* and rev-parse without a commit exit non-zero).                          *)
(***************************************************************************)
EXTENDS Integers, Sequences, FiniteSets, TLC

\* ------------------------------------------------------------------ bounds
MaxRuns == 2

\* ------------------------------------------------------- program constants
RETRY_ATTEMPTS == 5

\* --------------------------------------------------------------- the inputs
Rounds == {1, 2, 3}
Urls == {"", "http://callback"}
Contents == {"a", "b"}
AttachmentCounts == {0, 2}

\* the evaluator issues a fresh nonce with every request: "n1", "n2", ...
FreshNonce(k) == "n" \o ToString(k)
Nonces == {FreshNonce(k) : k \in 1..MaxRuns}

Requests ==
    [email : {"s@example.com"}, task : {"t1"}, round : Rounds,
     nonce : Nonces, evaluation_url : Urls, attachments : AttachmentCounts]

\* the requests the k-th run can be started with
RequestsOfRun(k) == {req \in Requests : req.nonce = FreshNonce(k)}

\* the responses a callback endpoint can give to one POST: an HTTP status,
\* or an exception of the requests library
StatusCodes == {200, 201, 202, 400, 401, 403, 404, 500, 503}
Responses ==
    [kind : {"http"}, code : StatusCodes]
      \cup [kind : {"Timeout", "ConnectionError"}, code : {0}]

\* ------------------------------------------------------------------- state
VARIABLES
    runs,             \* number of runs of process_deployment_request started
    request,          \* request_data of the current run
    prev,             \* what the previous run's repository operation returned,
                      \* and the head of the remote when the current run started
    pc,               \* position of the current run
    project_files,    \* the generator's file set (project_files / revised_files)
    attachment_files, \* paths returned by decode_attachments
    tmpfs,            \* attachment files present in the temp directory
    generation,       \* "none", "ok", "failed": how the generator call went
    removeTried,      \* attachment files the cleanup loop called os.remove on
    local,            \* the ephemeral working tree of the repository operation
    remote,           \* the remote repository owner/repo_name
    steps,            \* subprocesses run by the repository operation: [cmd, rc]
    nextSha,          \* the id the next commit gets
    repoOp,           \* "none", "running", "returned", "raised"
    ret,              \* (repo_url, commit_sha, pages_url) the operation returned
    error,            \* str(e) of the exception caught by the orchestrator
    evaluation_data,  \* the payload handed to the notifier
    notifyCalls,      \* calls of notify_evaluation_endpoint in this run
    attempt,          \* loop variable of notify_evaluation_endpoint
    posts,            \* the POSTs of this run: [payload, response]
    sleeps,           \* the delays slept by this run's notifier
    notifyResult,     \* "none", "true", "false": what the notifier returned
    notifyFrom,       \* "try" or "except": which call site called the notifier
    clock,            \* seconds since the run started (utcnow)
    workers,          \* the background threads started by the endpoint
    tempdir,          \* temp directory shared by the threads: path -> writer
    VALID_SECRETS,    \* Config.VALID_SECRETS, read from the environment at import
    calls,            \* calls of the Config class methods: arguments and result
    http,             \* the POST /api being handled: input, stage, response, thread
    decoding,         \* a call of decode_attachments: arguments, loop index, files
    racers,           \* concurrent round-1 runs for one repository name
    audit             \* a call of save_request_log: argument, file, result

threadVars == <<workers, tempdir>>
configVars == <<VALID_SECRETS, calls>>
logVars == <<racers, audit>>
reqVars == <<runs, request, prev, threadVars, configVars, http, decoding, logVars>>
genVars == <<project_files, attachment_files, tmpfs, generation, removeTried>>
gitVars == <<local, remote, steps, nextSha>>
outVars == <<repoOp, ret, error>>
notVars == <<evaluation_data, notifyCalls, attempt, posts, sleeps,
             notifyResult, notifyFrom, clock>>
vars == <<reqVars, pc, genVars, gitVars, outVars, notVars>>

NoTree ==
    [exists |-> FALSE, repo |-> FALSE, head |-> 0, headTree |-> {},
     tree |-> {}, staged |-> FALSE]
NoRet == [none |-> TRUE]
NoData == [none |-> TRUE]
NoRequest == [none |-> TRUE]
NoPrev == [round |-> 0, nochange |-> FALSE, commit_sha |-> 0, remote_head |-> 0,
           repo_url |-> <<>>]

\* the remote repository before the first run: not there yet, or left by an
\* earlier round-1 deployment of the same task
InitialRemotes ==
    {[exists |-> FALSE, head |-> 0, tree |-> {}, commits |-> {}],
     [exists |-> TRUE, head |-> 1,
      tree |-> {<<"index.html", "a">>, <<"README.md", "readme">>},
      commits |-> {1}]}

\* the requests two concurrent threads are started with
Threads == {1, 2}
TaskIds == {"t1", "t2"}
Emails == {"s@example.com", "r@example.com"}
FileNames == {"data.csv", "logo.png"}
ThreadRequests == [email : Emails, task : TaskIds, filename : FileNames]
Paths == TaskIds \X FileNames

\* os.path.join(tempfile.gettempdir(), f"task_{task_id}", filename)
AttachmentPath(task_id, filename) == <<task_id, filename>>

NoWorker == [pc |-> "none", email |-> "", path |-> <<"", "">>, analyzed |-> -1,
             copied |-> -1]

\* a round-1 run that has not been started
NoRacer == [pc |-> "none", files |-> {}, local |-> NoTree, registered |-> "none",
            pushed |-> FALSE, error |-> "", notified |-> "none"]

\* save_request_log has not been called
NoAudit == [stage |-> "none", given |-> <<>>, request_data |-> <<>>, logs |-> {},
            log_file |-> <<"none">>, repo_name |-> <<>>]

\* os.environ.get('VALID_SECRETS', '').split(',') with the variable unset
UnsetSecrets == <<"">>

\* the state of the run, of the threads and of the temp directory when the
\* process has started
InitRun ==
    /\ runs = 0
    /\ workers = [t \in Threads |-> NoWorker]
    /\ tempdir = [p \in Paths |-> 0]
    /\ request = NoRequest
    /\ pc = "idle"
    /\ project_files = {}
    /\ attachment_files = <<>>
    /\ tmpfs = {}
    /\ generation = "none"
    /\ removeTried = {}
    /\ local = NoTree
    /\ remote \in InitialRemotes
    /\ steps = <<>>
    /\ nextSha = remote.head + 1
    /\ prev = [NoPrev EXCEPT !.remote_head = remote.head]
    /\ repoOp = "none"
    /\ ret = NoRet
    /\ error = ""
    /\ evaluation_data = NoData
    /\ notifyCalls = 0
    /\ attempt = 0
    /\ posts = <<>>
    /\ sleeps = <<>>
    /\ notifyResult = "none"
    /\ notifyFrom = "none"
    /\ clock = 0
    /\ racers = [t \in Threads |-> NoRacer]
    /\ audit = NoAudit

\* decode_attachments has not been called
NoDecoding == [attachments |-> <<>>, task_id |-> "", i |-> 0, attachment_files |-> <<>>,
               files |-> {}, returned |-> FALSE]

\* no request has arrived at the endpoint
NoInput == [is_json |-> FALSE, body |-> "", fields |-> {}, secret |-> "",
            round |-> 0, evaluation_url |-> ""]
NoResponse == [code |-> 0, status |-> "", error |-> ""]
NoHttp == [stage |-> "none", input |-> NoInput, response |-> NoResponse,
           thread |-> "none"]

Init ==
    /\ InitRun
    /\ VALID_SECRETS = UnsetSecrets
    /\ calls = <<>>
    /\ http = NoHttp
    /\ decoding = NoDecoding


\* ---------------------------------------------------------------- helpers
RECURSIVE Pow2(_)
Pow2(n) == IF n = 0 THEN 1 ELSE 2 * Pow2(n - 1)

RECURSIVE SumSeq(_)
SumSeq(s) == IF s = <<>> THEN 0 ELSE Head(s) + SumSeq(Tail(s))

Range(s) == {s[i] : i \in 1..Len(s)}

\* a variant whose suffix is a counter of the calls made so far
get_repo_name_Counted(task_id, student_email) ==
    <<"student-task-", task_id, "-", ToString(Len(calls))>>

\* Config.get_repo_name: "student-task-{task_id}-{email_hash}"
get_repo_name(task_id, student_email) ==
    <<"student-task-", task_id, "-", "md5:" \o student_email>>

github_owner == "owner"

\* f"https://github.com/{owner}/{repo_name}.git", kept as its parts
GitUrl(repo_name) == <<"https://github.com/", github_owner, "/">> \o repo_name \o <<".git">>

\* repo_url.replace('.git', '')
StripGit(url) == SelectSeq(url, LAMBDA part : part # ".git")

\* _get_pages_url
get_pages_url(repo_name) == <<"https://", github_owner, ".github.io/">> \o repo_name

\* the filenames of the attachments of a request, in their order
AttachmentNames == <<"data.csv", "logo.png">>

\* decode_attachments: one temp file per decodable attachment
decode_attachments(n, task_id) ==
    [i \in 1..n |-> AttachmentPath(task_id, AttachmentNames[i])]

\* os.path.basename(attachment_path)
BaseName(path) == path[2]

\* the files the copied attachments become in the working tree
AttachmentEntries(paths, fs) ==
    {<<BaseName(p), "attachment">> : p \in (Range(paths) \cap fs)}

\* files written over a tree: same name replaces, new name adds
WriteFiles(tree, files) ==
    {e \in tree : \A f \in files : f[1] # e[1]} \cup files

\* _create_fallback_project: the placeholder page
FallbackProject == {<<"index.html", "fallback">>}

\* _parse_generated_files: the files found in the completion, or the fallback
\* project when none was found; never empty
ParsedOutputs == {{<<"index.html", c>>} : c \in Contents} \cup {FallbackProject}

\* generate_project_from_brief: the parsed files plus the standard files, or
\* the bare fallback project when anything raised; never empty, never raises
generate_project_from_brief(failed) ==
    IF failed THEN {FallbackProject}
    ELSE {WriteFiles(p, {<<"README.md", "readme">>}) : p \in ParsedOutputs}

\* revise_project_from_brief: the parsed files, or {} when anything raised
revise_project_from_brief(failed) ==
    IF failed THEN {{}} ELSE ParsedOutputs

\* ------------------------------------------------------------ orchestrator
\* a caller hands request_data to process_deployment_request
StartRun(req) ==
    /\ pc \in {"idle", "done"}
    /\ runs < MaxRuns
    /\ runs' = runs + 1
    /\ request' = req
    /\ prev' = IF pc = "idle" THEN prev
               ELSE [round |-> request.round,
                     nochange |-> /\ repoOp = "returned"
                                  /\ request.round # 1
                                  /\ \A i \in 1..Len(steps) : steps[i].cmd # "add",
                     commit_sha |-> IF repoOp = "returned" THEN ret.commit_sha ELSE 0,
                     remote_head |-> remote.head,
                     repo_url |-> IF repoOp = "returned" THEN ret.repo_url ELSE <<>>]
    /\ pc' = "init"
    /\ project_files' = {}
    /\ attachment_files' = <<>>
    /\ generation' = "none"
    /\ removeTried' = {}
    /\ local' = NoTree
    /\ steps' = <<>>
    /\ repoOp' = "none"
    /\ ret' = NoRet
    /\ error' = ""
    /\ evaluation_data' = NoData
    /\ notifyCalls' = 0
    /\ attempt' = 0
    /\ posts' = <<>>
    /\ sleeps' = <<>>
    /\ notifyResult' = "none"
    /\ notifyFrom' = "none"
    /\ clock' = 0
    /\ UNCHANGED <<tmpfs, remote, nextSha, threadVars, configVars, http, decoding, logVars>>

\* an exception reaches the except clause of process_deployment_request
Caught(msg) ==
    /\ error' = msg
    /\ pc' = "except"

\* lines 24-53: extract the fields, log the request, derive the repository
\* name, construct the components (OpenAI() raises without an API key),
\* materialize the attachments
Initialize ==
    /\ pc = "init"
    /\ \/ /\ Caught("OpenAIError: api_key not set")
          /\ UNCHANGED genVars
       \/ /\ attachment_files' = decode_attachments(request.attachments, request.task)
          /\ tmpfs' = tmpfs \cup Range(attachment_files')
          /\ pc' = "generate"
          /\ UNCHANGED <<project_files, generation, removeTried, error>>
    /\ UNCHANGED <<reqVars, gitVars, repoOp, ret, notVars>>

\* the branch on round_num: 1 is the build phase, everything else the
\* revise phase
IsBuildRound(round_num) == round_num = 1

\* lines 55-64 and 74-84: the generator call of the round
Generate ==
    /\ pc = "generate"
    /\ \E failed \in BOOLEAN :
        /\ generation' = IF failed THEN "failed" ELSE "ok"
        /\ IF IsBuildRound(request.round)
           THEN /\ project_files' \in generate_project_from_brief(failed)
                /\ pc' = "c_init"
           ELSE /\ project_files' \in revise_project_from_brief(failed)
                /\ pc' = "u_clone"
    /\ UNCHANGED <<reqVars, attachment_files, tmpfs, removeTried, gitVars, outVars,
                   notVars>>


\* ------------------------------------------------- the version-control driver
\* What one subprocess can do, given the working tree l and the remote r:
\*   "ok" exit code 0, "fail" a non-zero exit code, "conflict" exit code 422,
\*   "timeout" subprocess.TimeoutExpired, "nocwd" the working directory does
\*   not exist (subprocess.run raises before the command runs).
Outcomes(cmd, l, r) ==
    IF cmd \notin {"clone", "gh repo create", "gh api pages"} /\ ~l.exists
    THEN {"nocwd"}
    ELSE {"timeout"} \cup
         CASE cmd = "init" -> {"ok"}
           [] cmd \in {"config", "add", "remote add", "branch", "status"} ->
                IF l.repo THEN {"ok"} ELSE {"fail"}
           [] cmd = "commit" -> IF l.repo /\ l.staged THEN {"ok"} ELSE {"fail"}
           [] cmd = "rev-parse" -> IF l.repo /\ l.head # 0 THEN {"ok"} ELSE {"fail"}
           [] cmd = "push" ->
                {"fail"} \cup (IF l.repo /\ l.head # 0 /\ r.exists THEN {"ok"} ELSE {})
           [] cmd = "clone" -> {"fail"} \cup (IF r.exists THEN {"ok"} ELSE {})
           [] cmd = "gh repo create" -> {"fail"} \cup (IF ~r.exists THEN {"ok"} ELSE {})
           [] cmd = "gh api pages" -> {"ok", "conflict", "fail"}

\* the exit code of an outcome; -9 stands for the child killed at the timeout,
\* whose exit code the caller never sees
ReturnCode(out) ==
    CASE out = "ok" -> 0
      [] out = "conflict" -> 422
      [] out = "timeout" -> -9
      [] OTHER -> 1

\* the working tree after a subprocess that exited with outcome out
LocalAfter(cmd, out, l, r, sha) ==
    IF out # "ok" THEN l
    ELSE CASE cmd = "init" -> [l EXCEPT !.repo = TRUE]
           [] cmd = "clone" ->
                [exists |-> TRUE, repo |-> TRUE, head |-> r.head,
                 headTree |-> r.tree, tree |-> r.tree, staged |-> FALSE]
           [] cmd = "add" -> [l EXCEPT !.staged = (l.tree # l.headTree)]
           [] cmd = "commit" ->
                [l EXCEPT !.head = sha, !.headTree = l.tree, !.staged = FALSE]
           [] OTHER -> l

\* the remote repository after a subprocess that exited with outcome out
RemoteAfter(cmd, out, l, r) ==
    IF out # "ok" THEN r
    ELSE CASE cmd = "gh repo create" -> [r EXCEPT !.exists = TRUE]
           [] cmd = "push" ->
                [r EXCEPT !.head = l.head, !.tree = l.headTree,
                          !.commits = r.commits \cup {l.head}]
           [] OTHER -> r

\* a variant that logs a timeout and goes on, as for a non-zero exit code
RunCommandRaises_TimeoutLogged(out) == out = "nocwd"

\* _run_command: the outcomes on which it raises; a non-zero exit code is
\* logged and the CompletedProcess is returned to the caller
RunCommandRaises(out) == out \in {"timeout", "nocwd"}

ExceptionText(cmd, out) ==
    IF out = "timeout" THEN "TimeoutExpired: " \o cmd
    ELSE "FileNotFoundError: " \o cmd

\* a variant in which an exception leaves the working directory behind
OperationRaises_KeepTree(msg) ==
    /\ local' = local
    /\ repoOp' = "raised"
    /\ ret' = ret
    /\ Caught(msg)

\* an exception leaves create_and_deploy_repo / update_existing_repo: the
\* TemporaryDirectory is discarded, the except clause logs and re-raises
OperationRaises(msg) ==
    /\ local' = NoTree
    /\ repoOp' = "raised"
    /\ ret' = ret
    /\ Caught(msg)

\* one self._run_git_command(...) whose result the caller does not look at
GitStep(cmd, l, next) ==
    \E out \in Outcomes(cmd, l, remote) :
        /\ steps' = IF out = "nocwd" THEN steps
                    ELSE Append(steps, [cmd |-> cmd, rc |-> ReturnCode(out)])
        /\ remote' = RemoteAfter(cmd, out, l, remote)
        /\ nextSha' = IF cmd = "commit" /\ out = "ok" THEN nextSha + 1 ELSE nextSha
        /\ IF RunCommandRaises(out)
           THEN OperationRaises(ExceptionText(cmd, out))
           ELSE /\ local' = LocalAfter(cmd, out, l, remote, nextSha)
                /\ repoOp' = "running"
                /\ pc' = next
                /\ UNCHANGED <<ret, error>>

\* the operation returns its triple; the TemporaryDirectory is discarded
OperationReturns(repo_url, commit_sha, pages_url) ==
    /\ ret' = [repo_url |-> repo_url, commit_sha |-> commit_sha,
               pages_url |-> pages_url]
    /\ repoOp' = "returned"
    /\ local' = NoTree
    /\ pc' = "notify_success"
    /\ error' = error

repo_name == get_repo_name(request.task, request.email)

\* _get_latest_commit_sha: stdout of rev-parse HEAD, stripped; 0 stands for
\* the text that is not a commit id (rev-parse found no commit)
LatestCommitSha(l) == IF l.repo /\ l.head # 0 THEN l.head ELSE 0

otherVars == <<reqVars, genVars, notVars>>

\* --------------------------------------------------- create_and_deploy_repo
\* lines 60-65: TemporaryDirectory, makedirs(repo_path), git init
CreateInit ==
    /\ pc = "c_init"
    /\ GitStep("init", [NoTree EXCEPT !.exists = TRUE], "c_config")
    /\ UNCHANGED otherVars

\* line 66: _configure_git
CreateConfig ==
    /\ pc = "c_config"
    /\ GitStep("config", local, "c_write")
    /\ UNCHANGED otherVars

\* lines 68-80: write the project files, copy the attachment files
CreateWrite ==
    /\ pc = "c_write"
    /\ local' = [local EXCEPT !.tree =
                    WriteFiles(WriteFiles(local.tree, project_files),
                               AttachmentEntries(attachment_files, tmpfs))]
    /\ pc' = "c_ghrepo"
    /\ UNCHANGED <<otherVars, remote, steps, nextSha, outVars>>

\* a variant that treats gh repo create like the git steps: the exit code is
\* not looked at
CreateGithubRepo_IgnoreExit ==
    /\ pc = "c_ghrepo"
    /\ GitStep("gh repo create", local, "c_add")
    /\ UNCHANGED otherVars

\* lines 82-83 and _create_github_repo: gh repo create; a non-zero exit code
\* raises "Failed to create repository"
CreateGithubRepo ==
    /\ pc = "c_ghrepo"
    /\ \E out \in Outcomes("gh repo create", local, remote) :
        /\ steps' = Append(steps, [cmd |-> "gh repo create", rc |-> ReturnCode(out)])
        /\ remote' = RemoteAfter("gh repo create", out, local, remote)
        /\ IF out = "ok"
           THEN /\ pc' = "c_add"
                /\ UNCHANGED <<local, outVars>>
           ELSE OperationRaises(IF out = "timeout"
                                THEN ExceptionText("gh repo create", out)
                                ELSE "Failed to create repository")
    /\ UNCHANGED <<otherVars, nextSha>>

\* line 86
CreateAdd ==
    /\ pc = "c_add"
    /\ GitStep("add", local, "c_commit")
    /\ UNCHANGED otherVars

\* lines 87-88
CreateCommit ==
    /\ pc = "c_commit"
    /\ GitStep("commit", local, "c_remote")
    /\ UNCHANGED otherVars

\* line 91
CreateRemoteAdd ==
    /\ pc = "c_remote"
    /\ GitStep("remote add", local, "c_branch")
    /\ UNCHANGED otherVars

\* line 92
CreateBranch ==
    /\ pc = "c_branch"
    /\ GitStep("branch", local, "c_push")
    /\ UNCHANGED otherVars

\* a variant that hands the triple to the orchestrator while the push is
\* still to be run
CreatePush_Early ==
    /\ pc = "c_push"
    /\ ret' = [repo_url |-> GitUrl(repo_name), commit_sha |-> LatestCommitSha(local),
               pages_url |-> get_pages_url(repo_name)]
    /\ pc' = "notify_success"
    /\ UNCHANGED <<otherVars, gitVars, repoOp, error>>

\* line 93
CreatePush ==
    /\ pc = "c_push"
    /\ GitStep("push", local, "c_revparse")
    /\ UNCHANGED otherVars

\* line 96: commit_sha = self._get_latest_commit_sha(repo_path)
CreateRevParse ==
    /\ pc = "c_revparse"
    /\ GitStep("rev-parse", local, "c_pages")
    /\ UNCHANGED otherVars

\* a variant of _enable_github_pages without the try/except, in which every
\* result other than exit code 0 or 422 raises
EnablePagesRaises_Propagate(out) == out \notin {"ok", "conflict"}

\* _enable_github_pages, lines 208-232: a return code outside [0, 422] is a
\* warning, an exception of _run_command is caught; nothing leaves the method
EnablePagesRaises(out) == FALSE

\* lines 98-102 and _enable_github_pages: whatever gh api does, the expected
\* URL is returned, and the triple with it
CreatePages ==
    /\ pc = "c_pages"
    /\ \E out \in Outcomes("gh api pages", local, remote) :
        /\ steps' = Append(steps, [cmd |-> "gh api pages", rc |-> ReturnCode(out)])
        /\ IF EnablePagesRaises(out)
           THEN OperationRaises(ExceptionText("gh api pages", out))
           ELSE OperationReturns(GitUrl(repo_name), LatestCommitSha(local),
                                 get_pages_url(repo_name))
    /\ UNCHANGED <<otherVars, remote, nextSha>>


\* ----------------------------------------------------- update_existing_repo
\* lines 130-137: TemporaryDirectory, git clone repo_url repo_path
UpdateClone ==
    /\ pc = "u_clone"
    /\ GitStep("clone", NoTree, "u_config")
    /\ UNCHANGED otherVars

\* line 138: _configure_git, with cwd = repo_path
UpdateConfig ==
    /\ pc = "u_config"
    /\ GitStep("config", local, "u_write")
    /\ UNCHANGED otherVars

\* lines 140-152: write the revised files, copy the attachment files
UpdateWrite ==
    /\ pc = "u_write"
    /\ local' = [local EXCEPT !.tree =
                    WriteFiles(WriteFiles(local.tree, project_files),
                               AttachmentEntries(attachment_files, tmpfs))]
    /\ pc' = "u_status"
    /\ UNCHANGED <<otherVars, remote, steps, nextSha, outVars>>

\* a variant that never takes the no-change return
NoChanges_Never(out, l) == FALSE

\* line 156: not result.stdout.strip(), for git status --porcelain; a status
\* that exited non-zero printed nothing on stdout
NoChanges(out, l) == out # "ok" \/ l.tree = l.headTree

\* lines 155-156: git status --porcelain decides between the two returns
UpdateStatus ==
    /\ pc = "u_status"
    /\ \E out \in Outcomes("status", local, remote) :
        /\ steps' = IF out = "nocwd" THEN steps
                    ELSE Append(steps, [cmd |-> "status", rc |-> ReturnCode(out)])
        /\ IF RunCommandRaises(out)
           THEN OperationRaises(ExceptionText("status", out))
           ELSE /\ pc' = IF NoChanges(out, local) THEN "u_nochange" ELSE "u_add"
                /\ UNCHANGED <<local, outVars>>
    /\ UNCHANGED <<otherVars, remote, nextSha>>

\* line 158: the no-change branch reads the head
UpdateRevParseNoChange ==
    /\ pc = "u_nochange"
    /\ GitStep("rev-parse", local, "u_return")
    /\ UNCHANGED otherVars

\* line 163
UpdateAdd ==
    /\ pc = "u_add"
    /\ GitStep("add", local, "u_commit")
    /\ UNCHANGED otherVars

\* a variant of the update path that goes on to push without committing
UpdateCommit_Skipped ==
    /\ pc = "u_commit"
    /\ pc' = "u_push"
    /\ repoOp' = "running"
    /\ UNCHANGED <<otherVars, gitVars, ret, error>>

\* lines 164-165
UpdateCommit ==
    /\ pc = "u_commit"
    /\ GitStep("commit", local, "u_push")
    /\ UNCHANGED otherVars

\* line 166
UpdatePush ==
    /\ pc = "u_push"
    /\ GitStep("push", local, "u_revparse")
    /\ UNCHANGED otherVars

\* line 169
UpdateRevParse ==
    /\ pc = "u_revparse"
    /\ GitStep("rev-parse", local, "u_return")
    /\ UNCHANGED otherVars

\* lines 159-160 and 172-175: both returns of the update path
UpdateReturn ==
    /\ pc = "u_return"
    /\ OperationReturns(StripGit(GitUrl(repo_name)), LatestCommitSha(local),
                        get_pages_url(repo_name))
    /\ UNCHANGED <<otherVars, remote, steps, nextSha>>

\* ------------------------------------------------------ EvaluationNotifier
\* a variant that backs off linearly: attempt seconds
Backoff_Linear(a) == a

\* a variant with the exponent off by one: 2 ** attempt
Backoff_Doubled(a) == Pow2(a)

\* the delay before the attempt with loop index attempt > 0
Backoff(a) == Pow2(a - 1)

\* a variant that retries on 404
Classify_Retry404(code) ==
    IF code \in {200, 201, 202} THEN "success"
    ELSE IF code \in {400, 401, 403} THEN "client_error"
    ELSE "retry"

\* a variant that accepts 200 only
Classify_Only200(code) ==
    IF code \in {200} THEN "success"
    ELSE IF code \in {400, 401, 403, 404} THEN "client_error"
    ELSE "retry"

\* lines 78-88: what the status code of a response means for the loop
Classify(code) ==
    IF code \in {200, 201, 202} THEN "success"
    ELSE IF code \in {400, 401, 403, 404} THEN "client_error"
    ELSE "retry"

\* a variant that treats a failed success notification as an exception of
\* the try block
AfterNotify_RaiseOnFalse(from, result) ==
    IF from = "try" THEN (IF result = "true" THEN "cleanup" ELSE "except")
    ELSE "done"

\* where process_deployment_request goes on when the notifier has returned:
\* the call in the try block is followed by the cleanup loop, the call in
\* the except block by the end of the function
AfterNotify(from, result) == IF from = "try" THEN "cleanup" ELSE "done"

\* data['timestamp'] = t
AddTimestamp(data, t) ==
    [k \in DOMAIN data \cup {"timestamp"} |-> IF k = "timestamp" THEN t ELSE data[k]]

\* a variant that stamps the payload before it looks at the URL
StampedData_BeforeUrlCheck(url, data, t) == AddTimestamp(data, t)

\* lines 44-49: the dictionary after the URL check and the stamping: the
\* return of line 46 comes before the assignment of line 49
StampedData(url, data, t) == IF url = "" THEN data ELSE AddTimestamp(data, t)

\* lines 44-52: the call of notify_evaluation_endpoint(url, data) up to the
\* loop: without a URL it returns at once, otherwise it stamps the payload
NotifyEnter(url, data, from) ==
    /\ notifyCalls' = notifyCalls + 1
    /\ notifyFrom' = from
    /\ evaluation_data' = StampedData(url, data, clock)
    /\ attempt' = 0
    /\ IF url = ""
       THEN /\ notifyResult' = "false"
            /\ pc' = AfterNotify(from, "false")
       ELSE /\ notifyResult' = "none"
            /\ pc' = "notify_loop"
    /\ UNCHANGED <<posts, sleeps, clock>>

\* a variant that stamps the payload again before every POST
PostedPayload_Restamped(data, now) == AddTimestamp(data, now)

\* line 65: json=data, the dictionary stamped before the loop
PostedPayload(data, now) == data

\* lines 54-104: one iteration of the loop: the backoff sleep, the POST, and
\* the classification of the response or of the exception
NotifyAttempt(Rs) ==
    /\ pc = "notify_loop"
    /\ attempt < RETRY_ATTEMPTS
    /\ sleeps' = IF attempt > 0 THEN Append(sleeps, Backoff(attempt)) ELSE sleeps
    /\ clock' = IF attempt > 0 THEN clock + Backoff(attempt) ELSE clock
    /\ \E r \in Rs :
        /\ posts' = Append(posts, [payload |-> PostedPayload(evaluation_data, clock'),
                                   response |-> r, attempt |-> attempt,
                                   time |-> clock'])
        /\ LET c == IF r.kind = "http" THEN Classify(r.code) ELSE "retry"
           IN  CASE c = "success" ->
                      /\ notifyResult' = "true"
                      /\ pc' = AfterNotify(notifyFrom, "true")
                      /\ attempt' = attempt
                 [] c = "client_error" ->
                      /\ notifyResult' = "false"
                      /\ pc' = AfterNotify(notifyFrom, "false")
                      /\ attempt' = attempt
                 [] OTHER ->
                      /\ notifyResult' = notifyResult
                      /\ pc' = pc
                      /\ attempt' = attempt + 1
    /\ UNCHANGED <<reqVars, genVars, gitVars, outVars, evaluation_data,
                   notifyCalls, notifyFrom>>

\* a variant whose loop never gives up: out of attempts, it stays in the loop
NotifyExhausted_Never ==
    /\ pc = "notify_loop"
    /\ attempt >= RETRY_ATTEMPTS
    /\ UNCHANGED vars

\* lines 106-107: the loop ran out of attempts
NotifyExhausted ==
    /\ pc = "notify_loop"
    /\ attempt >= RETRY_ATTEMPTS
    /\ notifyResult' = "false"
    /\ pc' = AfterNotify(notifyFrom, "false")
    /\ UNCHANGED <<reqVars, genVars, gitVars, outVars, evaluation_data,
                   notifyCalls, notifyFrom, attempt, posts, sleeps, clock>>

\* ------------------------------------------- process_deployment_request, end
\* a variant of the success payload with an error field
SuccessPayload_WithError(req, r) ==
    [email |-> req.email, task |-> req.task, round |-> req.round,
     nonce |-> req.nonce, repo_url |-> r.repo_url, commit_sha |-> r.commit_sha,
     pages_url |-> r.pages_url, error |-> ""]

\* lines 97-105: evaluation_data of the try block
SuccessPayload(req, r) ==
    [email |-> req.email, task |-> req.task, round |-> req.round,
     nonce |-> req.nonce, repo_url |-> r.repo_url, commit_sha |-> r.commit_sha,
     pages_url |-> r.pages_url]

\* a variant of the failure payload that has no nonce
FailurePayload_NoNonce(req, err) ==
    [email |-> req.email, task |-> req.task, round |-> req.round,
     error |-> err, status |-> "failed"]

\* lines 128-135: evaluation_data of the except clause
FailurePayload(req, err) ==
    [email |-> req.email, task |-> req.task, round |-> req.round,
     nonce |-> req.nonce, error |-> err, status |-> "failed"]

\* lines 94-107: the success payload and the call of the notifier
NotifySuccess ==
    /\ pc = "notify_success"
    /\ NotifyEnter(request.evaluation_url, SuccessPayload(request, ret), "try")
    /\ UNCHANGED <<reqVars, genVars, gitVars, outVars>>

\* a variant whose except clause only logs
HandleException_LogOnly ==
    /\ pc = "except"
    /\ pc' = "done"
    /\ UNCHANGED <<reqVars, genVars, gitVars, outVars, notVars>>

\* lines 122-141: the except clause: the failure payload and the call of
\* the notifier
HandleException ==
    /\ pc = "except"
    /\ NotifyEnter(request.evaluation_url, FailurePayload(request, error), "except")
    /\ UNCHANGED <<reqVars, genVars, gitVars, outVars>>

\* a variant in which a failing os.remove is not caught inside the loop: it
\* ends the loop and reaches the except clause
Cleanup_RaiseOnFailure ==
    /\ pc = "cleanup"
    /\ \E kept \in SUBSET (Range(attachment_files) \cap tmpfs) :
        /\ tmpfs' = (tmpfs \ Range(attachment_files)) \cup kept
        /\ removeTried' = Range(attachment_files) \cap tmpfs
        /\ IF kept = {}
           THEN pc' = "done" /\ error' = error
           ELSE Caught("OSError: remove")
    /\ UNCHANGED <<reqVars, project_files, attachment_files, generation, gitVars,
                   repoOp, ret, notVars>>

\* lines 109-120: the cleanup loop; os.remove may fail for any of the files,
\* which is logged
Cleanup ==
    /\ pc = "cleanup"
    /\ removeTried' = Range(attachment_files) \cap tmpfs
    /\ \E kept \in SUBSET (Range(attachment_files) \cap tmpfs) :
        tmpfs' = (tmpfs \ Range(attachment_files)) \cup kept
    /\ pc' = "done"
    /\ UNCHANGED <<reqVars, project_files, attachment_files, generation, gitVars,
                   outVars, notVars>>

\* ---------------------------------------------------------- specifications
\* the responses the callback gives in the runs of the whole pipeline: one
\* of each class
PipelineResponses ==
    [kind : {"http"}, code : {200, 404, 503}]

Next ==
    \/ \E req \in RequestsOfRun(runs + 1) : StartRun(req)
    \/ Initialize
    \/ Generate
    \/ CreateInit
    \/ CreateConfig
    \/ CreateWrite
    \/ CreateGithubRepo
    \/ CreateAdd
    \/ CreateCommit
    \/ CreateRemoteAdd
    \/ CreateBranch
    \/ CreatePush
    \/ CreateRevParse
    \/ CreatePages
    \/ UpdateClone
    \/ UpdateConfig
    \/ UpdateWrite
    \/ UpdateStatus
    \/ UpdateRevParseNoChange
    \/ UpdateAdd
    \/ UpdateCommit
    \/ UpdatePush
    \/ UpdateRevParse
    \/ UpdateReturn
    \/ NotifySuccess
    \/ HandleException
    \/ NotifyAttempt(PipelineResponses)
    \/ NotifyExhausted
    \/ Cleanup

Spec == Init /\ [][Next]_vars


\* The notifier on its own: the run has caught the exception of the component
\* construction and is about to report it; the callback answers with any of
\* Responses.
InitNotifier ==
    /\ runs = 1
    /\ racers = [t \in Threads |-> NoRacer]
    /\ audit = NoAudit
    /\ VALID_SECRETS = UnsetSecrets
    /\ calls = <<>>
    /\ http = NoHttp
    /\ decoding = NoDecoding
    /\ workers = [t \in Threads |-> NoWorker]
    /\ tempdir = [p \in Paths |-> 0]
    /\ request \in Requests
    /\ pc = "except"
    /\ project_files = {}
    /\ attachment_files = <<>>
    /\ tmpfs = {}
    /\ generation = "none"
    /\ removeTried = {}
    /\ local = NoTree
    /\ remote \in InitialRemotes
    /\ steps = <<>>
    /\ nextSha = remote.head + 1
    /\ prev = [NoPrev EXCEPT !.remote_head = remote.head]
    /\ repoOp = "none"
    /\ ret = NoRet
    /\ error = "OpenAIError: api_key not set"
    /\ evaluation_data = NoData
    /\ notifyCalls = 0
    /\ attempt = 0
    /\ posts = <<>>
    /\ sleeps = <<>>
    /\ notifyResult = "none"
    /\ notifyFrom = "none"
    /\ clock = 0

NextNotifier ==
    \/ HandleException
    \/ NotifyAttempt(Responses)
    \/ NotifyExhausted

SpecNotifier == InitNotifier /\ [][NextNotifier]_vars


\* ================================================================== claims
IsSuccessPayload(d) == {"repo_url", "commit_sha", "pages_url"} \subseteq DOMAIN d
IsFailurePayload(d) == "status" \in DOMAIN d /\ d.status = "failed"

RepoPcs ==
    {"c_init", "c_config", "c_write", "c_ghrepo", "c_add", "c_commit", "c_remote",
     "c_branch", "c_push", "c_revparse", "c_pages", "u_clone", "u_config",
     "u_write", "u_status", "u_nochange", "u_add", "u_commit", "u_push",
     "u_revparse", "u_return"}

\* C1: an exception raised during the run is caught inside the run: the run
\* goes to the except clause and nowhere else, calls the notifier once with a
\* payload of status 'failed' that carries the captured message, and every
\* POST of the run carries that payload; with a callback URL at least one
\* POST is made before the run ends.
C1_FailureCaughtAndNotified ==
    /\ repoOp = "raised" => error # ""
    /\ error # "" =>
        /\ pc \in {"except", "notify_loop", "done"}
        /\ pc # "except" =>
            /\ notifyCalls = 1
            /\ notifyFrom = "except"
            /\ IsFailurePayload(evaluation_data)
            /\ evaluation_data.error = error
        /\ \A i \in 1..Len(posts) :
            /\ IsFailurePayload(posts[i].payload)
            /\ posts[i].payload.error = error
            /\ ~IsSuccessPayload(posts[i].payload)
        /\ (pc = "done" /\ request.evaluation_url # "") => Len(posts) >= 1

\* C1 witness: a repository operation raised and the failure was POSTed
C1_Witness ==
    /\ pc = "done"
    /\ repoOp = "raised"
    /\ Len(posts) >= 1
    /\ IsFailurePayload(posts[1].payload)

\* C2: a run calls notify_evaluation_endpoint exactly once: never before the
\* outcome is there, once when the run cleans up or has ended, never twice;
\* all POSTs of the run carry the payload of that one call, and when the call
\* has returned (also with false, after exhausted retries or a client error)
\* the run only cleans up and ends.
C2_ExactlyOneNotificationSequence ==
    /\ notifyCalls <= 1
    /\ pc \in {"cleanup", "done"} => notifyCalls = 1
    /\ pc \in {"init", "generate", "notify_success", "except"} \cup RepoPcs
          => notifyCalls = 0 /\ posts = <<>>
    /\ \A i \in 1..Len(posts) : posts[i].payload = evaluation_data
    /\ notifyFrom = "try" => error = "" /\ IsSuccessPayload(evaluation_data)
    /\ notifyResult # "none" => pc \in {"cleanup", "done"}
    /\ Len(posts) <= RETRY_ATTEMPTS

\* C2 witness: the success notification exhausted its retries and the run ended
C2_Witness ==
    /\ pc = "done"
    /\ notifyFrom = "try"
    /\ notifyResult = "false"
    /\ Len(posts) = RETRY_ATTEMPTS
    /\ notifyCalls = 1

\* C3: when a POST has been sent, the repository operation of the run is over
\* (it returned or raised, its working tree is gone) or was never started
\* because the run failed before it; the run is then at the notifier or
\* behind it, where no repository step can follow.
C3_NotifyAfterRepositoryOperation ==
    Len(posts) > 0 =>
        /\ pc \in {"notify_loop", "cleanup", "done"}
        /\ local = NoTree
        /\ \/ repoOp \in {"returned", "raised"}
           \/ repoOp = "none" /\ steps = <<>> /\ error # ""

\* C3 witness: a POST sent after a push
C3_Witness ==
    /\ Len(posts) > 0
    /\ repoOp = "returned"
    /\ \E i \in 1..Len(steps) : steps[i].cmd = "push"


VcsSteps ==
    {"init", "clone", "config", "add", "commit", "remote add", "branch", "push",
     "status", "rev-parse"}

\* C4: every success report names a commit that is in the remote repository,
\* and no success report is sent by a run whose commit or push step failed.
C4_SuccessReportImpliesCommitPushed ==
    \A i \in 1..Len(posts) :
        IsSuccessPayload(posts[i].payload) =>
            /\ posts[i].payload.commit_sha \in remote.commits
            /\ \A j \in 1..Len(steps) :
                steps[j].cmd \in {"commit", "push"} => steps[j].rc = 0

\* C5: a version-control step that exited non-zero is the last step of its
\* path, and the operation does not return a triple.
C5_NonZeroStepAbortsPath ==
    \A i \in 1..Len(steps) :
        (steps[i].cmd \in VcsSteps /\ steps[i].rc > 0) =>
            /\ i = Len(steps)
            /\ repoOp # "returned"

\* the update path ran no add, commit or push
NoWriteStep == \A i \in 1..Len(steps) : steps[i].cmd \notin {"add", "commit", "push"}

\* C6: the update path stages only when the working tree differs from the
\* cloned head; when it returns without add, commit and push from a
\* repository that has a head commit, the remote head is the one the run
\* found and its SHA is the commit_sha returned, and a second such call
\* right after returns the same commit_sha.
C6_UpdateIdempotent ==
    /\ pc = "u_add" => local.tree # local.headTree
    /\ (pc \in {"u_nochange", "u_return"} /\ NoWriteStep) =>
            local.tree = local.headTree /\ local.head = remote.head
    /\ (runs > 0 /\ ~IsBuildRound(request.round) /\ repoOp = "returned"
          /\ NoWriteStep /\ remote.head # 0) =>
            /\ remote.head = prev.remote_head
            /\ ret.commit_sha = remote.head
            /\ ret.commit_sha \in remote.commits
            /\ (prev.nochange /\ prev.commit_sha # 0) => ret.commit_sha = prev.commit_sha

\* C6 witness: two update calls in sequence, both without changes, same SHA
C6_Witness ==
    /\ runs = 2
    /\ request.round = 2
    /\ repoOp = "returned"
    /\ NoWriteStep
    /\ prev.round = 2
    /\ prev.nochange
    /\ prev.commit_sha # 0
    /\ ret.commit_sha = prev.commit_sha

\* C7: a run whose round is neither 1 nor 2 runs no repository step and
\* calls no notifier.
C7_InvalidRoundNoSideEffect ==
    (runs > 0 /\ request.round \notin {1, 2}) =>
        /\ steps = <<>>
        /\ repoOp = "none"
        /\ notifyCalls = 0
        /\ posts = <<>>

RetryableResponse(r) ==
    r.kind # "http" \/ r.code \notin {200, 201, 202, 400, 401, 403, 404}
ClientErrorResponse(r) == r.kind = "http" /\ r.code \in {400, 401, 403, 404}
AcceptedResponse(r) == r.kind = "http" /\ r.code \in {200, 201, 202}

C9_FastFail ==
    \A i \in 1..Len(posts) :
        ClientErrorResponse(posts[i].response) =>
            /\ i = Len(posts)
            /\ notifyResult = "false"
            /\ pc # "notify_loop"
            /\ Len(sleeps) = i - 1

\* C9 witness: the callback answered 404 at once
C9_Witness ==
    /\ Len(posts) = 1
    /\ posts[1].response = [kind |-> "http", code |-> 404]
    /\ notifyResult = "false"
    /\ sleeps = <<>>

\* C10: the call returns true exactly when an attempt was answered with 200,
\* 201 or 202, and such an attempt is the last POST of the call.
C10_TrueIffAccepted ==
    /\ notifyResult = "true" <=>
          \E i \in 1..Len(posts) : AcceptedResponse(posts[i].response)
    /\ \A i \in 1..Len(posts) :
          AcceptedResponse(posts[i].response) => i = Len(posts) /\ pc # "notify_loop"

\* C10 witness: accepted with 202 at the third attempt
C10_Witness ==
    /\ notifyResult = "true"
    /\ Len(posts) = 3
    /\ posts[3].response = [kind |-> "http", code |-> 202]
    /\ RetryableResponse(posts[1].response)

C12_NameCollisionFailsLoudly ==
    (runs > 0 /\ IsBuildRound(request.round)
       /\ \E i \in 1..Len(steps) :
            steps[i].cmd = "gh repo create" /\ steps[i].rc > 0) =>
        /\ repoOp = "raised"
        /\ error = "Failed to create repository"
        /\ pc \in {"except", "notify_loop", "done"}
        /\ NoWriteStep
        /\ remote.head = prev.remote_head
        /\ \A i \in 1..Len(posts) :
            IsFailurePayload(posts[i].payload) /\ ~IsSuccessPayload(posts[i].payload)

\* C12 witness: a round-1 run against a repository that exists already has
\* ended and POSTed the failure
C12_Witness ==
    /\ runs = 1
    /\ request.round = 1
    /\ prev.remote_head # 0
    /\ remote.exists
    /\ pc = "done"
    /\ error = "Failed to create repository"
    /\ Len(posts) >= 1

\* C13: when the generator fails in a round-1 run, the run ends as a failure:
\* no success payload is POSTed, every POST carries status "failed", and the
\* finished run went through the failure handler.
C13_FailedGenerationReportedFailed ==
    (runs > 0 /\ IsBuildRound(request.round) /\ generation = "failed") =>
        /\ \A i \in 1..Len(posts) :
              IsFailurePayload(posts[i].payload) /\ ~IsSuccessPayload(posts[i].payload)
        /\ pc = "done" => notifyFrom = "except"

\* C14: an empty file set from the generator is treated as a generator
\* failure: the repository operation is not reported as a success and no POST
\* carries a commit SHA; every POST carries status "failed".
C14_EmptyFileSetIsFailure ==
    (runs > 0 /\ generation # "none" /\ project_files = {}) =>
        /\ pc \notin {"notify_success", "cleanup"}
        /\ \A i \in 1..Len(posts) :
              IsFailurePayload(posts[i].payload) /\ ~IsSuccessPayload(posts[i].payload)
        /\ pc = "done" => notifyFrom = "except"

\* C15: every payload POSTed by a run whose repository operation succeeded
\* contains status "success", repo_url, commit_sha, pages_url, email, task,
\* round, nonce and timestamp.
C15_SuccessPayloadFields ==
    (runs > 0 /\ repoOp = "returned") =>
        \A i \in 1..Len(posts) :
            /\ {"status", "repo_url", "commit_sha", "pages_url", "email", "task",
                "round", "nonce", "timestamp"} \subseteq DOMAIN posts[i].payload
            /\ posts[i].payload.status = "success"

\* C16: when a run has finished, on the success path and on the failure path
\* alike, os.remove was attempted on every attachment file the run
\* materialized that is still in the temp directory.
C16_CleanupUnconditional ==
    (runs > 0 /\ pc = "done") =>
        \A f \in Range(attachment_files) : f \in tmpfs => f \in removeTried

\* ---------------------------------------------------------------------------
\* Concurrent requests: handle_deployment_request starts one daemon thread per
\* request and every thread runs process_deployment_request on the same temp
\* directory. Only the attachment files of a thread are followed here:
\* tempdir[p] is the thread whose bytes file p holds, 0 when p does not exist.

runVars == <<runs, request, prev, configVars, http, decoding, logVars, pc, genVars, gitVars, outVars,
            notVars>>

\* app.py 68-74: threading.Thread(target=process_deployment_request).start()
ThreadStart(t, req) ==
    /\ workers[t].pc = "none"
    /\ workers' = [workers EXCEPT ![t] =
                      [NoWorker EXCEPT !.pc = "decode", !.email = req.email,
                                       !.path = AttachmentPath(req.task, req.filename)]]
    /\ UNCHANGED <<tempdir, runVars>>

\* utils.py 72-109: the file is written at task_{task_id}/filename, over
\* whatever is there
ThreadDecode(t) ==
    /\ workers[t].pc = "decode"
    /\ tempdir' = [tempdir EXCEPT ![workers[t].path] = t]
    /\ workers' = [workers EXCEPT ![t].pc = "analyze"]
    /\ UNCHANGED runVars

\* llm_generator.py 161-181: _analyze_attachments opens and reads the file;
\* a missing file is an exception it swallows
ThreadAnalyze(t) ==
    /\ workers[t].pc = "analyze"
    /\ workers' = [workers EXCEPT ![t].pc = "copy",
                                  ![t].analyzed = tempdir[workers[t].path]]
    /\ UNCHANGED <<tempdir, runVars>>

\* github_deployer.py 75-80, 147-152: the file is copied into the working
\* tree when it exists; then the operation returns or raises
ThreadCopy(t) ==
    /\ workers[t].pc = "copy"
    /\ \E raised \in BOOLEAN :
        workers' = [workers EXCEPT ![t].pc = IF raised THEN "done" ELSE "cleanup",
                                   ![t].copied = tempdir[workers[t].path]]
    /\ UNCHANGED <<tempdir, runVars>>

\* api_handler.py 114-120: os.path.exists, os.remove, failures swallowed
ThreadCleanup(t) ==
    /\ workers[t].pc = "cleanup"
    /\ \E removed \in BOOLEAN :
        tempdir' = IF removed /\ tempdir[workers[t].path] # 0
                   THEN [tempdir EXCEPT ![workers[t].path] = 0]
                   ELSE tempdir
    /\ workers' = [workers EXCEPT ![t].pc = "done"]
    /\ UNCHANGED runVars

NextConcurrent ==
    \/ \E t \in Threads, req \in ThreadRequests : ThreadStart(t, req)
    \/ \E t \in Threads : ThreadDecode(t)
    \/ \E t \in Threads : ThreadAnalyze(t)
    \/ \E t \in Threads : ThreadCopy(t)
    \/ \E t \in Threads : ThreadCleanup(t)

SpecConcurrent == Init /\ [][NextConcurrent]_vars

\* C17: concurrent runs do not touch each other's attachment files: a file a
\* thread materialized and has not yet cleaned up still holds that thread's
\* bytes (nobody overwrote or deleted it), and what a thread read or copied
\* is its own file; also when both requests carry the same task id and
\* filename, from the same or from different requesters.
C17_NoSharedAttachmentFiles ==
    \A t \in Threads :
        /\ workers[t].pc \in {"analyze", "copy", "cleanup"} =>
              tempdir[workers[t].path] = t
        /\ workers[t].analyzed \in {-1, t}
        /\ workers[t].copied \in {-1, t}

\* C18 as stated: the timestamp of every POSTed payload is the time at which
\* that attempt was sent.
C18_TimestampAtSendTime ==
    \A i \in 1..Len(posts) :
        /\ "timestamp" \in DOMAIN posts[i].payload
        /\ posts[i].payload.timestamp = posts[i].time

\* C18: the timestamp is set once, when notify_evaluation_endpoint is entered
\* and before the first attempt; every attempt of the sequence, however much
\* later it is sent, carries that same timestamp, the send time of the first
\* attempt.
C18_TimestampSetOncePerSequence ==
    \A i \in 1..Len(posts) :
        /\ "timestamp" \in DOMAIN posts[i].payload
        /\ posts[i].payload.timestamp = posts[1].time
        /\ posts[i].payload.timestamp = evaluation_data.timestamp
        /\ posts[i].time = posts[1].time + SumSeq(SubSeq(sleeps, 1, i - 1))

C18_Witness ==
    /\ Len(posts) >= 3
    /\ posts[3].time > posts[2].time /\ posts[2].time > posts[1].time
    /\ posts[3].payload.timestamp = posts[1].payload.timestamp

PagesSteps == {i \in 1..Len(steps) : steps[i].cmd = "gh api pages"}

\* C19: enabling the publish endpoint never fails the create path: whatever
\* the enable step did (exit 0, 422, another non-zero code, a timeout), the
\* operation returned its triple; and the pages_url of every returned triple,
\* from the create path and from the update path alike, is
\* https://{owner}.github.io/{repo_name}.
C19_PagesBestEffort ==
    /\ PagesSteps # {} =>
          /\ repoOp = "returned" /\ error = ""
          /\ ret.repo_url = GitUrl(repo_name)
          /\ pc \in {"notify_success", "notify_loop", "cleanup", "done"}
    /\ (runs > 0 /\ repoOp = "returned") =>
          /\ ret.pages_url = get_pages_url(repo_name)
          /\ \A i \in 1..Len(posts) : posts[i].payload.pages_url = ret.pages_url

C19_Witness ==
    /\ \E i \in PagesSteps : steps[i].rc \notin {0, 422}
    /\ repoOp = "returned"
    /\ Len(posts) >= 1 /\ posts[1].payload.pages_url = get_pages_url(repo_name)
    /\ pc = "done"

\* C20: the working directory of create_and_deploy_repo and of
\* update_existing_repo is discarded on every exit of the operation, the
\* normal return, the early no-change return and every exception: once the
\* operation has returned or raised, and whenever no operation is running,
\* no working tree exists.
C20_WorkingTreeDiscarded ==
    /\ repoOp \in {"returned", "raised"} => local = NoTree
    /\ pc \notin RepoPcs => local = NoTree
    /\ local # NoTree => repoOp = "running"

C20_Witness ==
    /\ repoOp = "raised" /\ local = NoTree /\ pc = "done"
    /\ \E i \in 1..Len(steps) : steps[i].cmd = "commit" /\ steps[i].rc = 0
    /\ steps[Len(steps)].rc = -9

RequestFields == {"email", "task", "round", "nonce"}

\* C21: every payload POSTed for a request, on the success path, on the
\* failure path and on every retry, carries email, task, round and nonce
\* equal to the values of that request.
C21_PayloadEchoesRequest ==
    \A i \in 1..Len(posts) :
        /\ RequestFields \subseteq DOMAIN posts[i].payload
        /\ \A k \in RequestFields : posts[i].payload[k] = request[k]

C21_Witness ==
    /\ runs = 2 /\ request.nonce = "n2" /\ notifyFrom = "except"
    /\ Len(posts) >= 2 /\ posts[2].payload.nonce = "n2"

\* C22: every POSTed payload populates exactly one outcome variant: all of
\* repo_url, commit_sha, pages_url and no error field, or status "failed"
\* with an error field and none of the three.
OutcomeUrls == {"repo_url", "commit_sha", "pages_url"}

C22_ExactlyOneVariant ==
    \A i \in 1..Len(posts) :
        LET d == posts[i].payload
            success == OutcomeUrls \subseteq DOMAIN d /\ "error" \notin DOMAIN d
            failure == /\ IsFailurePayload(d) /\ "error" \in DOMAIN d
                       /\ OutcomeUrls \cap DOMAIN d = {}
        IN  (success \/ failure) /\ ~(success /\ failure)

C22_Witness ==
    /\ Len(posts) >= 1 /\ notifyFrom = "try"
    /\ OutcomeUrls \subseteq DOMAIN posts[1].payload
    /\ "error" \notin DOMAIN posts[1].payload

\* ---------------------------------------------------------------------------
\* The class methods of Config, called with any arguments under any
\* configuration of VALID_SECRETS; calls is the log of the calls.

MaxCalls == 2

\* VALID_SECRETS as read from the environment (unset, one secret, two
\* secrets, a trailing comma) or patched to the empty list
SecretConfigs == {UnsetSecrets, <<>>, <<"s1">>, <<"s1", "s2">>, <<"s1", "">>}
Secrets == {"", "s1", "s2", "bad"}

\* a variant that only tests membership
validate_secret_MembershipOnly(secret) == secret \in Range(VALID_SECRETS)

\* Config.validate_secret
validate_secret(secret) ==
    IF secret = "" THEN FALSE
    ELSE IF VALID_SECRETS = <<>> \/ VALID_SECRETS = <<"">> THEN TRUE
    ELSE secret \in Range(VALID_SECRETS)

NoCall == [fn |-> "", round |-> 0, task_id |-> "", student_email |-> "",
           secret |-> "", name |-> <<>>, ok |-> FALSE]

\* api_handler.py 41: repo_name = Config.get_repo_name(task_id, email), in a
\* run of either round
CallGetRepoName(round, task_id, student_email) ==
    /\ Len(calls) < MaxCalls
    /\ calls' = Append(calls, [NoCall EXCEPT !.fn = "get_repo_name", !.round = round,
                                             !.task_id = task_id,
                                             !.student_email = student_email,
                                             !.name = get_repo_name(task_id, student_email)])
    /\ UNCHANGED <<VALID_SECRETS, http, decoding, logVars, runs, request, prev, threadVars, pc, genVars,
                   gitVars, outVars, notVars>>

\* app.py 57: Config.validate_secret(data['secret'])
CallValidateSecret(secret) ==
    /\ Len(calls) < MaxCalls
    /\ calls' = Append(calls, [NoCall EXCEPT !.fn = "validate_secret", !.secret = secret,
                                             !.ok = validate_secret(secret)])
    /\ UNCHANGED <<VALID_SECRETS, http, decoding, logVars, runs, request, prev, threadVars, pc, genVars,
                   gitVars, outVars, notVars>>

InitConfig ==
    /\ InitRun
    /\ ~remote.exists
    /\ VALID_SECRETS \in SecretConfigs
    /\ calls = <<>>
    /\ http = NoHttp
    /\ decoding = NoDecoding

NextConfig ==
    \/ \E round \in {1, 2}, task_id \in TaskIds, student_email \in Emails :
          CallGetRepoName(round, task_id, student_email)
    \/ \E secret \in Secrets : CallValidateSecret(secret)

SpecConfig == InitConfig /\ [][NextConfig]_vars

RepoNameCalls == {i \in 1..Len(calls) : calls[i].fn = "get_repo_name"}
SecretCalls == {i \in 1..Len(calls) : calls[i].fn = "validate_secret"}

C27_ValidateSecret ==
    \A i \in SecretCalls :
        LET secret == calls[i].secret
            unconfigured == VALID_SECRETS \in {<<>>, <<"">>}
        IN  /\ secret = "" => ~calls[i].ok
            /\ (secret # "" /\ unconfigured) => calls[i].ok
            /\ (secret # "" /\ ~unconfigured) =>
                  (calls[i].ok <=> \E k \in 1..Len(VALID_SECRETS) : VALID_SECRETS[k] = secret)

C27_Witness ==
    /\ VALID_SECRETS = <<"s1", "s2">> /\ SecretCalls = {1, 2}
    /\ calls[1].secret = "bad" /\ ~calls[1].ok
    /\ calls[2].secret = "s2" /\ calls[2].ok

\* ---------------------------------------------------------------------------
\* POST /api: handle_deployment_request validates the request, starts the
\* background thread and answers; the thread finishes on its own.

required_fields ==
    {"email", "secret", "task", "round", "nonce", "brief", "evaluation_url"}

\* the requests sent to the endpoint: a Content-Type that is JSON or not, a
\* body that is a JSON object, the JSON null or not JSON at all, the fields
\* present in the object, and the values of the fields the endpoint reads
FieldSets ==
    {required_fields, required_fields \ {"secret"},
     required_fields \ {"nonce", "evaluation_url"}, {}}
CallbackUrls == {"http://callback", "https://callback", "ftp://callback", ""}
Inputs ==
    [is_json : BOOLEAN, body : {"object", "malformed", "null"}, fields : FieldSets,
     secret : Secrets, round : Rounds, evaluation_url : CallbackUrls]

Rejection(code, message) == [code |-> code, status |-> "", error |-> message]

\* a variant of the answer that reports how the deployment went
Accepted_WithOutcome(thread) ==
    [code |-> 200, status |-> IF thread = "failed" THEN "failed" ELSE "ok",
     error |-> ""]

\* app.py 76-81: the answer to an accepted request
Accepted(thread) == [code |-> 200, status |-> "ok", error |-> ""]

\* app.py 40-63: the checks, in their order; get_json raises on a body that
\* is not JSON and `field not in data` raises on null, and the except
\* clause (83-85) turns both into 500; NoResponse when every check passed
Validate(in) ==
    IF ~in.is_json THEN Rejection(400, "Content-Type must be application/json")
    ELSE IF in.body # "object" THEN Rejection(500, "Internal server error")
    ELSE IF ~(required_fields \subseteq in.fields)
         THEN Rejection(400, "Missing required fields")
    ELSE IF ~validate_secret(in.secret) THEN Rejection(401, "Invalid secret")
    ELSE IF in.round \notin {1, 2} THEN Rejection(400, "Round must be 1 or 2")
    ELSE NoResponse

apiIdle == <<runs, request, prev, threadVars, configVars, decoding, logVars, pc, genVars, gitVars,
             outVars, notVars>>

\* a request arrives
ApiReceive(in) ==
    /\ http.stage = "none"
    /\ http' = [http EXCEPT !.stage = "received", !.input = in]
    /\ UNCHANGED apiIdle

\* app.py 40-74: a failed check answers at once; otherwise thread.start()
ApiValidate ==
    /\ http.stage = "received"
    /\ http' = IF Validate(http.input) # NoResponse
               THEN [http EXCEPT !.stage = "responded",
                                 !.response = Validate(http.input)]
               ELSE [http EXCEPT !.stage = "started", !.thread = "running"]
    /\ UNCHANGED apiIdle

\* the background run ends, as a success or as a failure
ApiThreadEnds(outcome) ==
    /\ http.thread = "running"
    /\ http' = [http EXCEPT !.thread = outcome]
    /\ UNCHANGED apiIdle

\* app.py 76-81: return jsonify(...), 200; the thread is not joined
ApiRespond ==
    /\ http.stage = "started"
    /\ http' = [http EXCEPT !.stage = "responded", !.response = Accepted(http.thread)]
    /\ UNCHANGED apiIdle

InitApi ==
    /\ InitRun
    /\ ~remote.exists
    /\ VALID_SECRETS \in {UnsetSecrets, <<"s1", "s2">>}
    /\ calls = <<>>
    /\ http = NoHttp
    /\ decoding = NoDecoding

NextApi ==
    \/ \E in \in Inputs : ApiReceive(in)
    \/ ApiValidate
    \/ \E outcome \in {"succeeded", "failed"} : ApiThreadEnds(outcome)
    \/ ApiRespond

SpecApi == InitApi /\ [][NextApi]_vars

\* what the specification calls a callback URL: http:// or https://
StartsWith(str, prefix) ==
    Len(str) >= Len(prefix) /\ SubSeq(str, 1, Len(prefix)) = prefix
ValidCallbackUrl(url) == StartsWith(url, "http://") \/ StartsWith(url, "https://")

\* C24: the endpoint starts a background run only for a request that is a
\* JSON object with all required fields, a valid secret, round 1 or 2 and a
\* callback URL starting with http:// or https://.
C24_OnlyValidRequestsStartRun ==
    http.thread # "none" =>
        /\ http.input.is_json /\ http.input.body = "object"
        /\ required_fields \subseteq http.input.fields
        /\ validate_secret(http.input.secret)
        /\ http.input.round \in {1, 2}
        /\ ValidCallbackUrl(http.input.evaluation_url)

NotJson(in) == ~in.is_json \/ in.body = "malformed"

\* C25: invalid requests are rejected without a background run, the checks
\* in this order: not JSON gives 400; a missing required field gives 400
\* "Missing required fields"; an invalid secret gives 401 "Invalid secret";
\* a round outside {1, 2} gives 400 "Round must be 1 or 2".
C25_RejectionsInOrder ==
    LET in == http.input
        missing == ~(required_fields \subseteq in.fields)
        badSecret == ~validate_secret(in.secret)
        badRound == in.round \notin {1, 2}
        rejected == NotJson(in) \/ missing \/ badSecret \/ badRound
    IN  /\ (http.stage # "none" /\ rejected) => http.thread = "none"
        /\ (http.stage = "responded" /\ in.body # "null") =>
              /\ NotJson(in) => http.response.code = 400
              /\ (~NotJson(in) /\ missing) =>
                    http.response = Rejection(400, "Missing required fields")
              /\ (~NotJson(in) /\ ~missing /\ badSecret) =>
                    http.response = Rejection(401, "Invalid secret")
              /\ (~NotJson(in) /\ ~missing /\ ~badSecret /\ badRound) =>
                    http.response = Rejection(400, "Round must be 1 or 2")

\* C26: the answer to an accepted request only confirms intake: it is 200
\* with status "ok" whether the background run is still running, has
\* succeeded or has failed, and returning it never waits for the run.
C26_ResponseConfirmsIntakeOnly ==
    /\ http.stage = "started" => ENABLED ApiRespond
    /\ (http.stage = "responded" /\ http.thread # "none") =>
          http.response = [code |-> 200, status |-> "ok", error |-> ""]
    /\ http.response.code = 200 => http.thread # "none"

C26_Witness ==
    /\ http.stage = "responded" /\ http.thread = "failed"
    /\ http.response.code = 200 /\ http.response.status = "ok"

\* cli.py 87-97: main prints the success message and exits with 0 when
\* process_deployment_request returns, and prints the error and exits with 1
\* when it raises; process_deployment_request ends at pc = "done" on every
\* path, its except clause (api_handler.py 122-141) re-raises nothing
CliExit == IF pc = "done" THEN 0 ELSE -1

\* C29: the CLI exits with 0 (success message) only if the deployment
\* succeeded and with 1 (error message) if generation or the repository
\* operation failed.
C29_CliReportsOutcome ==
    (runs > 0 /\ pc = "done") =>
        IF repoOp = "returned" /\ generation = "ok" THEN CliExit = 0 ELSE CliExit = 1

\* One run of process_deployment_request, from its start to its end.
StartFirstRun(req) == runs = 0 /\ StartRun(req)

NextLive ==
    \/ \E req \in RequestsOfRun(1) : StartFirstRun(req)
    \/ Initialize
    \/ Generate
    \/ CreateInit
    \/ CreateConfig
    \/ CreateWrite
    \/ CreateGithubRepo
    \/ CreateAdd
    \/ CreateCommit
    \/ CreateRemoteAdd
    \/ CreateBranch
    \/ CreatePush
    \/ CreateRevParse
    \/ CreatePages
    \/ UpdateClone
    \/ UpdateConfig
    \/ UpdateWrite
    \/ UpdateStatus
    \/ UpdateRevParseNoChange
    \/ UpdateAdd
    \/ UpdateCommit
    \/ UpdatePush
    \/ UpdateRevParse
    \/ UpdateReturn
    \/ NotifySuccess
    \/ HandleException
    \/ NotifyAttempt(PipelineResponses)
    \/ NotifyExhausted
    \/ Cleanup

\* Every external call returns, fails or times out, so a step that can be
\* taken is eventually taken.
SpecLive == Init /\ [][NextLive]_vars /\ WF_vars(NextLive)

\* C28: every run terminates: a run that has started reaches its end, with
\* at most RETRY_ATTEMPTS notification attempts.
C28_RunTerminates ==
    /\ (pc \notin {"idle", "done"}) ~> (pc = "done")
    /\ [](Len(posts) <= RETRY_ATTEMPTS /\ attempt <= RETRY_ATTEMPTS)

C28_Witness ==
    /\ pc = "done" /\ Len(posts) = RETRY_ATTEMPTS /\ notifyResult = "false"
    /\ repoOp = "returned"

\* ---------------------------------------------------------------------------
\* decode_attachments on its own: base64 text is a sequence of symbols, 0..63
\* the digits of the alphabet, PAD the character '=', JUNK any character
\* outside the alphabet; bytes are 0..255.

MaxAttachments == 2
PAD == 64
JUNK == 65

\* base64.b64encode
RECURSIVE b64encode(_)
b64encode(bytes) ==
    IF Len(bytes) = 0 THEN <<>>
    ELSE IF Len(bytes) = 1
         THEN <<bytes[1] \div 4, (bytes[1] % 4) * 16, PAD, PAD>>
    ELSE IF Len(bytes) = 2
         THEN <<bytes[1] \div 4, (bytes[1] % 4) * 16 + bytes[2] \div 16,
                (bytes[2] % 16) * 4, PAD>>
    ELSE <<bytes[1] \div 4, (bytes[1] % 4) * 16 + bytes[2] \div 16,
           (bytes[2] % 16) * 4 + bytes[3] \div 64, bytes[3] % 64>>
           \o b64encode(SubSeq(bytes, 4, Len(bytes)))

\* binascii.a2b_base64 in its default, non-strict mode: characters outside
\* the alphabet are discarded, a completed pad sequence ends the input, any
\* other '=' is skipped, and a quad left incomplete at the end is an error
RECURSIVE a2b_base64(_, _, _, _, _, _)
a2b_base64(text, k, quad_pos, pads, leftchar, out) ==
    IF k > Len(text) THEN [ok |-> quad_pos = 0, bytes |-> out]
    ELSE LET ch == text[k] IN
         IF ch = PAD
         THEN IF quad_pos >= 2 /\ quad_pos + pads + 1 >= 4
              THEN [ok |-> TRUE, bytes |-> out]
              ELSE a2b_base64(text, k + 1, quad_pos,
                              IF quad_pos >= 2 THEN pads + 1 ELSE pads, leftchar, out)
         ELSE IF ch = JUNK
         THEN a2b_base64(text, k + 1, quad_pos, pads, leftchar, out)
         ELSE CASE quad_pos = 0 -> a2b_base64(text, k + 1, 1, 0, ch, out)
                [] quad_pos = 1 ->
                     a2b_base64(text, k + 1, 2, 0, ch % 16,
                                Append(out, leftchar * 4 + ch \div 16))
                [] quad_pos = 2 ->
                     a2b_base64(text, k + 1, 3, 0, ch % 4,
                                Append(out, leftchar * 16 + ch \div 4))
                [] quad_pos = 3 ->
                     a2b_base64(text, k + 1, 0, 0, 0, Append(out, leftchar * 64 + ch))

\* base64.b64decode(content_b64): ok = FALSE stands for binascii.Error
b64decode(text) == a2b_base64(text, 1, 0, 0, 0, <<>>)

\* the byte strings attachments are made of: text, and bytes that are not
\* UTF-8
Payloads == {<<104, 105>>, <<255>>, <<104, 105, 33>>}

\* the content fields sent: the encodings of the payloads, the empty
\* content, an encoding that lost its last character, and text that is no
\* base64 at all
EncodedContents ==
    {b64encode(p) : p \in Payloads}
      \cup {<<>>, SubSeq(b64encode(<<104, 105>>), 1, 3), <<JUNK, JUNK, JUNK, JUNK>>}

NoFilename == "<absent>"
Attachments == [filename : FileNames \cup {NoFilename}, content : EncodedContents]

RECURSIVE SeqsUpTo(_, _)
SeqsUpTo(S, n) ==
    IF n = 0 THEN {<<>>}
    ELSE LET shorter == SeqsUpTo(S, n - 1)
         IN  shorter \cup {Append(q, x) : q \in shorter, x \in S}

\* attachment.get('filename', f'attachment_{i}'), i counting from 0
FilenameOf(attachment, i) ==
    IF attachment.filename = NoFilename THEN "attachment_" \o ToString(i)
    ELSE attachment.filename

\* open(file_path, 'w' or 'wb').write(...): the file holds the bytes, over
\* whatever it held
WriteFile(files, path, bytes) ==
    {e \in files : e[1] # path} \cup {<<path, bytes>>}

ReadFile(files, path) == (CHOOSE e \in files : e[1] = path)[2]

decodeIdle == <<runs, request, prev, threadVars, configVars, http, logVars, pc, genVars,
                gitVars, outVars, notVars>>

\* utils.py 77-112: one iteration of the loop over the attachments
DecodeAttachment ==
    /\ ~decoding.returned
    /\ decoding.i < Len(decoding.attachments)
    /\ LET attachment == decoding.attachments[decoding.i + 1]
           filename == FilenameOf(attachment, decoding.i)
           content_b64 == attachment.content
           decoded == b64decode(content_b64)
           file_path == AttachmentPath(decoding.task_id, filename)
       IN  decoding' =
             IF content_b64 = <<>> \/ ~decoded.ok
             THEN [decoding EXCEPT !.i = decoding.i + 1]
             ELSE [decoding EXCEPT
                     !.i = decoding.i + 1,
                     !.files = WriteFile(decoding.files, file_path, decoded.bytes),
                     !.attachment_files = Append(decoding.attachment_files, file_path)]
    /\ UNCHANGED decodeIdle

\* utils.py 114: return attachment_files
DecodeReturn ==
    /\ ~decoding.returned
    /\ decoding.i = Len(decoding.attachments)
    /\ decoding' = [decoding EXCEPT !.returned = TRUE]
    /\ UNCHANGED decodeIdle

InitDecode ==
    /\ InitRun
    /\ ~remote.exists
    /\ VALID_SECRETS = UnsetSecrets
    /\ calls = <<>>
    /\ http = NoHttp
    /\ \E attachments \in SeqsUpTo(Attachments, MaxAttachments) :
          decoding = [NoDecoding EXCEPT !.attachments = attachments, !.task_id = "t1"]

NextDecode == DecodeAttachment \/ DecodeReturn

SpecDecode == InitDecode /\ [][NextDecode]_vars

\* content that is the base64 encoding of some bytes
ValidBase64(text) ==
    text # <<>> /\ b64decode(text).ok /\ b64encode(b64decode(text).bytes) = text

\* the attachments of the call that have non-empty valid base64 content, as
\* their positions in the input
ValidPositions ==
    SelectSeq([k \in 1..Len(decoding.attachments) |-> k],
              LAMBDA k : ValidBase64(decoding.attachments[k].content))

\* C30: decode_attachments returns [] for an empty list; otherwise it
\* returns, in input order, one path per attachment whose content is
\* non-empty valid base64, skipping the others, and every returned file
\* holds exactly the bytes that were encoded.
C30_DecodeRoundTrip ==
    decoding.returned =>
        /\ decoding.attachments = <<>> => decoding.attachment_files = <<>>
        /\ Len(decoding.attachment_files) = Len(ValidPositions)
        /\ \A n \in 1..Len(ValidPositions) :
              n <= Len(decoding.attachment_files) =>
                LET k == ValidPositions[n]
                    attachment == decoding.attachments[k]
                IN  /\ decoding.attachment_files[n] =
                          AttachmentPath(decoding.task_id, FilenameOf(attachment, k - 1))
                    /\ b64encode(ReadFile(decoding.files, decoding.attachment_files[n]))
                          = attachment.content

\* the steps of the run that ran cmd, as positions in steps
StepsOf(cmd) == {i \in 1..Len(steps) : steps[i].cmd = cmd}

\* the update path found a change: it went past the no-change test
UpdateFoundChanges ==
    runs > 0 /\ ~IsBuildRound(request.round) /\ StepsOf("add") # {}

\* C31: when update_existing_repo finds a change it runs add, commit and
\* push in that order, each exactly once, and the SHA it returns is that of
\* the newly created head commit, different from the head that was cloned.
C31_UpdateCommitsAndPushesOnce ==
    /\ (runs > 0 /\ ~IsBuildRound(request.round)) =>
          \A cmd \in {"add", "commit", "push"} : Cardinality(StepsOf(cmd)) <= 1
    /\ (UpdateFoundChanges /\ repoOp = "returned") =>
          /\ \A cmd \in {"add", "commit", "push"} : Cardinality(StepsOf(cmd)) = 1
          /\ \A i \in StepsOf("status"), a \in StepsOf("add"), c \in StepsOf("commit"),
                p \in StepsOf("push") : i < a /\ a < c /\ c < p
          /\ ret.commit_sha # 0
          /\ ret.commit_sha # prev.remote_head
          /\ ret.commit_sha = nextSha - 1

C31_Witness ==
    /\ UpdateFoundChanges /\ repoOp = "returned" /\ pc = "done"
    /\ ret.commit_sha = remote.head /\ remote.head # prev.remote_head

\* the clone of the update path exited non-zero
CloneFailed ==
    runs > 0 /\ ~IsBuildRound(request.round)
      /\ \E i \in StepsOf("clone") : steps[i].rc > 0

\* the texts of the exceptions raised for the step cmd
ErrorsOfStep(cmd) == {ExceptionText(cmd, out) : out \in {"timeout", "nocwd"}}

\* C32: a failed clone aborts the update path before anything is written,
\* committed or pushed, the error that surfaces identifies the clone step,
\* unlike the error of any other step, and the failed notification carries
\* that error.
C32_FailedCloneIdentified ==
    CloneFailed =>
        /\ \A cmd \in {"add", "commit", "push"} : StepsOf(cmd) = {}
        /\ remote.head = prev.remote_head
        /\ repoOp \in {"running", "raised"}
        /\ repoOp = "raised" => error \in ErrorsOfStep("clone")
        /\ \A i \in 1..Len(posts) :
              IsFailurePayload(posts[i].payload) /\ posts[i].payload.error = error

\* the version-control steps of the run that ran into the timeout; enabling
\* the publish endpoint is not one of them
TimedOutSteps ==
    {i \in 1..Len(steps) : steps[i].rc = -9 /\ steps[i].cmd # "gh api pages"}

\* C33: a version-control step that exceeds the timeout is treated as failed
\* and not retried: it is the last step of the path, it ran once, the
\* operation raised its TimeoutExpired and the run goes to the failure
\* notification.
C33_TimeoutAbortsPath ==
    \A i \in TimedOutSteps :
        /\ i = Len(steps)
        /\ Cardinality(StepsOf(steps[i].cmd)) = 1
        /\ repoOp = "raised"
        /\ error = "TimeoutExpired: " \o steps[i].cmd
        /\ pc \in {"except", "notify_loop", "done"}
        /\ pc # "except" => notifyFrom = "except"
        /\ \A k \in 1..Len(posts) :
              IsFailurePayload(posts[k].payload) /\ posts[k].payload.error = error

C33_Witness ==
    /\ \E i \in TimedOutSteps : steps[i].cmd = "push"
    /\ pc = "done" /\ Len(posts) >= 1
    /\ posts[1].payload.error = "TimeoutExpired: push"

\* the repository operations the run has invoked, told by their first step
CreateInvoked == StepsOf("init") # {} \/ pc \in {"c_init", "c_config"}
UpdateInvoked == StepsOf("clone") # {} \/ pc = "u_clone"

\* C34: within one run the pipeline is not retried and is routed by round:
\* no step of the generator or of a repository operation runs twice,
\* create_and_deploy_repo is invoked only when round = 1,
\* update_existing_repo only when round = 2, and never both.
C34_RoutedByRoundOnce ==
    runs > 0 =>
        /\ \A cmd \in {"init", "clone", "gh repo create", "commit", "push"} :
              Cardinality(StepsOf(cmd)) <= 1
        /\ CreateInvoked => request.round = 1
        /\ UpdateInvoked => request.round = 2
        /\ ~(CreateInvoked /\ UpdateInvoked)

\* C35: a failure to delete an attachment file is logged and goes no
\* further: os.remove is still tried on every file, the run ends, the
\* outcome reported stays the success that was sent and no failure
\* notification follows it.
C35_CleanupFailureContained ==
    (runs > 0 /\ notifyFrom = "try") =>
        /\ pc \in {"notify_loop", "cleanup", "done"}
        /\ pc = "done" =>
              \A f \in Range(attachment_files) : f \in tmpfs => f \in removeTried
        /\ notifyCalls = 1 /\ error = "" /\ repoOp = "returned"
        /\ \A i \in 1..Len(posts) :
              IsSuccessPayload(posts[i].payload) /\ ~IsFailurePayload(posts[i].payload)

C35_Witness ==
    /\ pc = "done" /\ notifyFrom = "try" /\ Len(attachment_files) = 2
    /\ attachment_files[1] \in tmpfs /\ attachment_files[2] \notin tmpfs
    /\ removeTried = Range(attachment_files)
    /\ Len(posts) >= 1 /\ IsSuccessPayload(posts[1].payload)

\* C36: for one repository the update path of round 2, on its changed and on
\* its no-change return, reports the repo_url that the create path of round
\* 1 reported.
C36_SameRepoUrlAcrossRounds ==
    (/\ runs > 1 /\ prev.round = 1 /\ prev.repo_url # <<>>
     /\ request.round = 2 /\ repoOp = "returned") =>
        /\ ret.repo_url = prev.repo_url
        /\ \A i \in 1..Len(posts) : posts[i].payload.repo_url = prev.repo_url

\* the dictionary handed to the last call of notify_evaluation_endpoint
GivenPayload ==
    IF notifyFrom = "try" THEN SuccessPayload(request, ret)
                          ELSE FailurePayload(request, error)

\* C38: a call of notify_evaluation_endpoint with an empty URL returns false,
\* makes no POST, does not sleep, and leaves the dictionary it was given as
\* it was (no timestamp is added).
C38_EmptyUrlNoEffect ==
    (runs > 0 /\ notifyCalls > 0 /\ request.evaluation_url = "") =>
        /\ notifyResult = "false"
        /\ posts = <<>>
        /\ sleeps = <<>>
        /\ attempt = 0
        /\ evaluation_data = GivenPayload
        /\ "timestamp" \notin DOMAIN evaluation_data

C38_Witness ==
    /\ runs > 0 /\ notifyCalls > 0 /\ request.evaluation_url = ""
    /\ notifyFrom = "try" /\ pc = "done" /\ notifyResult = "false"

\* ------------------------------------------- concurrent round-1 deployments
\* Two requests of round 1 for the same (task, email) each run
\* process_deployment_request in a thread of its own (app.py 68-74). Every
\* thread has its own TemporaryDirectory; the repository owner/repo_name at
\* GitHub (remote) is the one thing they share. racers[t].registered is what
\* gh repo create did for thread t, racers[t].notified the payload it sent.

raceIdle == <<runs, request, prev, threadVars, configVars, http, decoding, audit, pc,
              genVars, local, steps, nextSha, outVars, notVars>>

\* the exception leaves create_and_deploy_repo and reaches the except clause
\* of process_deployment_request
RacerRaised(w, msg) == [w EXCEPT !.pc = "except", !.local = NoTree, !.error = msg]

\* a variant of _create_github_repo that raises on a timeout only
CreateRepoRaises_OnlyTimeout(out) == out = "timeout"

\* _create_github_repo, lines 193-196: returncode != 0 raises; a timeout has
\* raised inside _run_command
CreateRepoRaises(out) == out # "ok"

\* app.py 68-74 and api_handler.py 24-92: the thread starts, the generator
\* returns the file set, create_and_deploy_repo is entered
RaceStart(t, c) ==
    /\ racers[t].pc = "none"
    /\ racers' = [racers EXCEPT ![t] = [NoRacer EXCEPT !.pc = "c_init",
                                                       !.files = {<<"index.html", c>>}]]
    /\ UNCHANGED <<remote, raceIdle>>

\* the id of the commit thread t makes in its own working tree
RacerSha(t) == nextSha + t

\* one self._run_git_command(...) of thread t in its own working tree l
RaceGitStep(t, cmd, l, next) ==
    /\ racers[t].pc # "none"
    /\ \E out \in Outcomes(cmd, l, remote) :
        /\ remote' = RemoteAfter(cmd, out, l, remote)
        /\ racers' = [racers EXCEPT ![t] =
                        IF RunCommandRaises(out)
                        THEN RacerRaised(@, ExceptionText(cmd, out))
                        ELSE [@ EXCEPT !.pc = next,
                                       !.local = LocalAfter(cmd, out, l, remote, RacerSha(t)),
                                       !.pushed = @ \/ (cmd = "push" /\ out = "ok")]]
    /\ UNCHANGED raceIdle

\* lines 60-65: TemporaryDirectory, makedirs, git init
RaceInit(t) ==
    /\ racers[t].pc = "c_init"
    /\ RaceGitStep(t, "init", [NoTree EXCEPT !.exists = TRUE], "c_config")

\* line 66: _configure_git
RaceConfig(t) ==
    /\ racers[t].pc = "c_config"
    /\ RaceGitStep(t, "config", racers[t].local, "c_write")

\* lines 68-80: the project files are written into the working tree
RaceWrite(t) ==
    /\ racers[t].pc = "c_write"
    /\ racers' = [racers EXCEPT ![t].pc = "c_ghrepo",
                                ![t].local.tree = WriteFiles(@, racers[t].files)]
    /\ UNCHANGED <<remote, raceIdle>>

\* lines 82-83 and _create_github_repo: gh repo create owner/repo_name
RaceCreateGithubRepo(t) ==
    /\ racers[t].pc = "c_ghrepo"
    /\ \E out \in Outcomes("gh repo create", racers[t].local, remote) :
        /\ remote' = RemoteAfter("gh repo create", out, racers[t].local, remote)
        /\ racers' = [racers EXCEPT ![t] =
                        IF CreateRepoRaises(out)
                        THEN [RacerRaised(@, IF out = "timeout"
                                             THEN ExceptionText("gh repo create", out)
                                             ELSE "Failed to create repository")
                              EXCEPT !.registered = out]
                        ELSE [@ EXCEPT !.pc = "c_add", !.registered = out]]
    /\ UNCHANGED raceIdle

\* line 86
RaceAdd(t) ==
    /\ racers[t].pc = "c_add"
    /\ RaceGitStep(t, "add", racers[t].local, "c_commit")

\* lines 87-88
RaceCommit(t) ==
    /\ racers[t].pc = "c_commit"
    /\ RaceGitStep(t, "commit", racers[t].local, "c_remote")

\* line 91
RaceRemoteAdd(t) ==
    /\ racers[t].pc = "c_remote"
    /\ RaceGitStep(t, "remote add", racers[t].local, "c_branch")

\* line 92
RaceBranch(t) ==
    /\ racers[t].pc = "c_branch"
    /\ RaceGitStep(t, "branch", racers[t].local, "c_push")

\* line 93
RacePush(t) ==
    /\ racers[t].pc = "c_push"
    /\ RaceGitStep(t, "push", racers[t].local, "c_revparse")

\* line 96
RaceRevParse(t) ==
    /\ racers[t].pc = "c_revparse"
    /\ RaceGitStep(t, "rev-parse", racers[t].local, "c_pages")

\* lines 98-102: _enable_github_pages never raises; the triple is returned
RacePages(t) ==
    /\ racers[t].pc = "c_pages"
    /\ racers' = [racers EXCEPT ![t].pc = "notify_success", ![t].local = NoTree]
    /\ UNCHANGED <<remote, raceIdle>>

\* api_handler.py 96-107: the success payload goes to the notifier
RaceNotifySuccess(t) ==
    /\ racers[t].pc = "notify_success"
    /\ racers' = [racers EXCEPT ![t].pc = "done", ![t].notified = "success"]
    /\ UNCHANGED <<remote, raceIdle>>

\* api_handler.py 122-141: the failure payload goes to the notifier
RaceHandleException(t) ==
    /\ racers[t].pc = "except"
    /\ racers' = [racers EXCEPT ![t].pc = "done", ![t].notified = "failed"]
    /\ UNCHANGED <<remote, raceIdle>>

NextRace ==
    \/ \E t \in Threads, c \in Contents : RaceStart(t, c)
    \/ \E t \in Threads : RaceInit(t)
    \/ \E t \in Threads : RaceConfig(t)
    \/ \E t \in Threads : RaceWrite(t)
    \/ \E t \in Threads : RaceCreateGithubRepo(t)
    \/ \E t \in Threads : RaceAdd(t)
    \/ \E t \in Threads : RaceCommit(t)
    \/ \E t \in Threads : RaceRemoteAdd(t)
    \/ \E t \in Threads : RaceBranch(t)
    \/ \E t \in Threads : RacePush(t)
    \/ \E t \in Threads : RaceRevParse(t)
    \/ \E t \in Threads : RacePages(t)
    \/ \E t \in Threads : RaceNotifySuccess(t)
    \/ \E t \in Threads : RaceHandleException(t)

SpecRace == Init /\ [][NextRace]_vars

\* the threads whose gh repo create found the name taken, or got no answer
LostRegistration == {t \in Threads : racers[t].registered \in {"fail", "timeout"}}

\* C37: of two concurrent round-1 runs for one repository name at most one
\* sends a success payload, and only the one whose gh repo create created
\* the repository; a run whose gh repo create did not create it fails there,
\* never pushes, and sends the failure payload.
C37_OneWinner ==
    /\ Cardinality({t \in Threads : racers[t].notified = "success"}) <= 1
    /\ \A t \in Threads :
          racers[t].notified = "success" => racers[t].registered = "ok"
    /\ \A t \in LostRegistration :
          /\ racers[t].pc \in {"except", "done"}
          /\ racers[t].error \in {"Failed to create repository",
                                  ExceptionText("gh repo create", "timeout")}
          /\ ~racers[t].pushed
          /\ racers[t].notified # "success"
          /\ racers[t].pc = "done" => racers[t].notified = "failed"
    /\ \A c \in remote.commits :
          \/ c = prev.remote_head
          \/ \E t \in Threads : racers[t].registered = "ok" /\ c = RacerSha(t)

C37_Witness ==
    \E t, u \in Threads :
        /\ t # u
        /\ racers[t].notified = "success" /\ racers[t].pushed
        /\ racers[u].notified = "failed" /\ racers[u].registered = "fail"
        /\ racers[u].error = "Failed to create repository"

\* ------------------------------------------------------- save_request_log
\* audit.given is the dictionary process_deployment_request was called with,
\* audit.request_data what that dictionary holds now, audit.logs the files of
\* the logs directory as [name, content], audit.log_file the returned path.

auditIdle == <<runs, request, prev, threadVars, configVars, http, decoding, racers, pc,
               genVars, gitVars, outVars, notVars>>

\* the request dictionaries: with a secret, or, in a direct call, without
LogRequests ==
    [email : Emails, task : TaskIds, round : {1, 2}, secret : {"s1", "s2"}]
        \cup [email : Emails, task : TaskIds, round : {1, 2}]

\* str.replace(old, new) for a one-character old
RECURSIVE Replace(_, _, _)
Replace(str, old, new) ==
    IF Len(str) = 0 THEN ""
    ELSE (IF SubSeq(str, 1, 1) = old THEN new ELSE SubSeq(str, 1, 1))
             \o Replace(SubSeq(str, 2, Len(str)), old, new)

\* lines 29-34: f"{timestamp}_{email_safe}_{task_id}_round{round_num}.json"
LogFileName(d) ==
    <<"utcnow", Replace(Replace(d.email, "@", "_at_"), ".", "_"), d.task, "round", d.round,
      ".json">>

\* a variant that writes the dictionary as it came
Redact_Nothing(d) == d

\* lines 37-39: log_data['secret'] = '[REDACTED]' when the key is there
Redact(d) == [k \in DOMAIN d |-> IF k = "secret" THEN "[REDACTED]" ELSE d[k]]

\* lines 37-45: the copy, redacted, with the _metadata entry
LogData(d) ==
    [k \in DOMAIN d \cup {"_metadata"} |->
        IF k = "_metadata" THEN [logged_at |-> "utcnow", log_file |-> LogFileName(d)]
        ELSE Redact(d)[k]]

\* what the file holds after the write: all of log_data, a part of it when
\* json.dump raised after open() had created the file, nothing without a file
WriteOutcomes(d) ==
    {[file |-> TRUE, keys |-> K, raised |-> K # DOMAIN LogData(d)] :
        K \in SUBSET DOMAIN LogData(d)}
        \cup {[file |-> FALSE, keys |-> {}, raised |-> TRUE]}

\* line 37: dict(request_data) is a new dictionary; the assignments of lines
\* 39 and 42 go to the copy, the caller's dictionary keeps its entries
CallerDataAfter(d) == d

\* lines 53-57: except Exception logs and returns ""; nothing is raised
SaveLogRaises(w) == FALSE

\* api_handler.py 16-35: process_deployment_request(request_data) is entered
LogEnter(d) ==
    /\ audit.stage = "none"
    /\ audit' = [audit EXCEPT !.stage = "called", !.given = d, !.request_data = d]
    /\ UNCHANGED auditIdle

\* api_handler.py 38 and utils.py 13-57: log_file = save_request_log(request_data)
SaveRequestLog ==
    /\ audit.stage = "called"
    /\ \E w \in WriteOutcomes(audit.request_data) :
        LET d == audit.request_data
            content == [k \in w.keys |-> LogData(d)[k]]
        IN  audit' = [audit EXCEPT
                        !.stage = IF w.raised /\ SaveLogRaises(w) THEN "except" ELSE "logged",
                        !.logs = IF w.file
                                 THEN {[name |-> LogFileName(d), content |-> content]}
                                 ELSE {},
                        !.log_file = IF w.raised THEN <<>> ELSE <<"logs">> \o LogFileName(d),
                        !.request_data = CallerDataAfter(d)]
    /\ UNCHANGED auditIdle

\* api_handler.py 41: the run goes on with request_data's fields
LogContinue ==
    /\ audit.stage = "logged"
    /\ audit' = [audit EXCEPT !.stage = "continued",
                              !.repo_name = get_repo_name(audit.request_data.task,
                                                          audit.request_data.email)]
    /\ UNCHANGED auditIdle

NextLog ==
    \/ \E d \in LogRequests : LogEnter(d)
    \/ SaveRequestLog
    \/ LogContinue

SpecLog == Init /\ [][NextLog]_vars

\* C39: a file save_request_log wrote holds '[REDACTED]' under the key secret
\* and under every other key of the request the request's own value, never
\* the secret; the dictionary of the run is what it was before the call; and
\* whether or not the write failed the run goes on to its next statement.
C39_AuditLogRedactedAndHarmless ==
    /\ \A f \in audit.logs : \A k \in DOMAIN f.content :
          /\ k = "secret" => f.content[k] = "[REDACTED]"
          /\ k \notin {"secret", "_metadata"} => f.content[k] = audit.given[k]
          /\ k = "_metadata" => f.content[k].log_file = f.name
    /\ audit.stage \in {"logged", "continued"} => audit.request_data = audit.given
    /\ audit.stage # "except"
    /\ audit.stage = "continued" =>
          audit.repo_name = get_repo_name(audit.given.task, audit.given.email)

C39_Witness ==
    /\ audit.stage = "continued"
    /\ audit.log_file = <<>>
    /\ "secret" \in DOMAIN audit.given
    /\ \E f \in audit.logs : "secret" \in DOMAIN f.content

====
